---- MODULE Spec2Model ----
\* Verification model of rtdi DuckTape: the step graph executor (Metadata.py),
\* the table comparison / SCD2 transforms (CDCTransforms.py) and the DuckDB
\* loader (Loaders.py), driven through Dataflow.start (Dataflow.py).
EXTENDS Integers, Sequences, FiniteSets, TLC

\* ---------------------------------------------------------------------------
\* Bounds of the step graph model
\* ---------------------------------------------------------------------------
\* number of edges wired with add_input / add_output
MaxEdges == 3
\* number of top-level start() / completed() calls of one behaviour
MaxOps == 3
\* number of execute() calls that raise in one behaviour
MaxFailures == 1
\* depth of the interpreter's call stack (RecursionError beyond it)
MaxDepth == 6

Steps == {"a", "b", "c"}

VARIABLES
    inputs,        \* Step.inputs   (None is the empty set)
    outputs,       \* Step.outputs  (None is the empty set)
    executed,      \* Step.executed
    execute_lock,  \* Step.execute_lock
    stack,         \* call stack of Step.start / Step.completed frames
    trace,         \* history: the top-level calls made so far and their outcome
    runLog,        \* history: steps whose execute was invoked by the current top-level start
    invoked,       \* history: execute invocations per step since the last completed()
    succeeded,     \* history: execute invocations that returned, since the last completed()
    failures       \* history: number of execute calls that raised

gvars == <<inputs, outputs, executed, execute_lock, stack, trace, runLog,
           invoked, succeeded, failures>>

VARIABLES
    pipeline,      \* shape of the dataflow: "plain" (Comparison -> Loader) or "scd2"
    tc,            \* the Comparison step: its configuration fields
    scd2,          \* the SCD2 step: its configuration fields
    loader,        \* the DuckDBTable step: its configuration fields
    source,        \* rows of the source table csv_data
    target,        \* rows of the target table customer_output
    cdc,           \* rows of the CDC table csv_data_tc
    now,           \* the wall clock read by SCD2.execute
    cv,            \* history: current_version as the last Comparison.execute selected it
    compared,      \* history: Comparison.execute has run on its own
    starts,        \* history: number of Dataflow.start calls
    ran,           \* history: the last Dataflow.start executed the Loader
    hist,          \* history: the source contents of the runs the Loader executed
    issued         \* history: the keys the Loader assigned, run by run

VARIABLES
    gk,            \* the GenerateKey step: its configuration fields
    cfg,           \* how the primary keys of the datasets of one step are declared
    pre,           \* history: the tables as the step executed on its own found them
    outcome        \* history: how that step ended: "none" (not run), "done" or the error raised

svars == <<gk, cfg, pre, outcome>>

dvars == <<pipeline, tc, scd2, loader, source, target, cdc, now, cv, compared,
           starts, ran, hist, issued, svars>>

vars == <<gvars, dvars>>

\* ---------------------------------------------------------------------------
\* Step graph: wiring (Metadata.py Step.add_input / Step.add_output)
\* ---------------------------------------------------------------------------
Edges == {<<x, y>> \in Steps \X Steps : x \in inputs[y]}

\* self.add_input(step): registers step as input and, through
\* step.add_output(self), self as output of step; the mutual recursion ends
\* on the "already present" test.
add_input(self, step) ==
    /\ stack = <<>> /\ trace = <<>>
    /\ Cardinality(Edges) < MaxEdges
    /\ step \notin inputs[self]
    /\ inputs' = [inputs EXCEPT ![self] = @ \cup {step}]
    /\ outputs' = [outputs EXCEPT ![step] = @ \cup {self}]
    /\ UNCHANGED <<executed, execute_lock, stack, trace, runLog, invoked, succeeded, failures, dvars>>

add_output(self, step) ==
    /\ stack = <<>> /\ trace = <<>>
    /\ Cardinality(Edges) < MaxEdges
    /\ step \notin outputs[self]
    /\ outputs' = [outputs EXCEPT ![self] = @ \cup {step}]
    /\ inputs' = [inputs EXCEPT ![step] = @ \cup {self}]
    /\ UNCHANGED <<executed, execute_lock, stack, trace, runLog, invoked, succeeded, failures, dvars>>

\* ---------------------------------------------------------------------------
\* Step graph: Step.start (Metadata.py 68-80), one action per statement
\* ---------------------------------------------------------------------------
AllClear == \A s \in Steps : ~executed[s] /\ ~execute_lock[s]

\* a start that would not look at execute_lock
StartUnlocked(step) == ~executed[step]

\* the test guarding both recursive calls of start: lines 73 and 79
ShouldStart(step) == ~executed[step] /\ ~execute_lock[step]

\* a start that would not test executed before it executes
AlwaysExecute(step) == TRUE

\* the test guarding the execute of start: line 70
NeedsExecute(step) == ~executed[step]

\* A frame of the call stack is the step whose start or completed is running
\* and the loop it is in.  Both loops of start call start(step) for the steps
\* that pass ShouldStart when they are visited; a step that fails the test
\* keeps failing it for the rest of the run (flags are only set during a
\* start) and a step that was called fails it afterwards, so whatever the
\* iteration order the loop calls, one after the other, steps that pass the
\* test until none is left.  The same holds for completed and its test
\* "step.executed", which only completed clears.
StartFrame(step) ==
    IF NeedsExecute(step)
    THEN [node |-> step, pc |-> "inputs"]
    ELSE [node |-> step, pc |-> "outputs"]

Top == stack[Len(stack)]
Pop == SubSeq(stack, 1, Len(stack) - 1)
SetTop(f) == [stack EXCEPT ![Len(stack)] = f]
SetResult(r) == [trace EXCEPT ![Len(trace)].result = r]
LoopSet(f) == IF f.pc \in {"inputs", "cinputs"} THEN inputs[f.node] ELSE outputs[f.node]

\* a caller invokes N.start(duckdb)
TopStart(n) ==
    /\ stack = <<>>
    /\ Len(trace) < MaxOps
    /\ trace' = Append(trace, [op |-> "start", node |-> n, clean |-> AllClear,
                               result |-> "running"])
    /\ execute_lock' = [execute_lock EXCEPT ![n] = TRUE]
    /\ stack' = <<StartFrame(n)>>
    /\ runLog' = <<>>
    /\ UNCHANGED <<inputs, outputs, executed, invoked, succeeded, failures, dvars>>

\* "for step in self.inputs" (71-74) and "for step in self.outputs" (77-80):
\* the next step of the set, in any order, that passes the test is started
StartVisit ==
    /\ stack # <<>>
    /\ Top.pc \in {"inputs", "outputs"}
    /\ \E s \in LoopSet(Top) :
        /\ ShouldStart(s)
        /\ execute_lock' = [execute_lock EXCEPT ![s] = TRUE]
        /\ stack' = Append(stack, StartFrame(s))
    /\ UNCHANGED <<inputs, outputs, executed, trace, runLog, invoked, succeeded, failures, dvars>>

\* the inputs loop is over; self.execute(duckdb) returns; self.executed = True (75-76)
ExecuteOk ==
    /\ stack # <<>>
    /\ Top.pc = "inputs"
    /\ \A s \in LoopSet(Top) : ~ShouldStart(s)
    /\ executed' = [executed EXCEPT ![Top.node] = TRUE]
    /\ stack' = SetTop([Top EXCEPT !.pc = "outputs"])
    /\ runLog' = Append(runLog, Top.node)
    /\ invoked' = [invoked EXCEPT ![Top.node] = @ + 1]
    /\ succeeded' = [succeeded EXCEPT ![Top.node] = @ + 1]
    /\ UNCHANGED <<inputs, outputs, execute_lock, trace, failures, dvars>>

\* a start that would catch what execute raises and go on with its outputs
ExecuteSwallow ==
    /\ stack # <<>>
    /\ Top.pc = "inputs"
    /\ \A s \in LoopSet(Top) : ~ShouldStart(s)
    /\ failures < MaxFailures
    /\ failures' = failures + 1
    /\ stack' = SetTop([Top EXCEPT !.pc = "outputs"])
    /\ runLog' = Append(runLog, Top.node)
    /\ invoked' = [invoked EXCEPT ![Top.node] = @ + 1]
    /\ UNCHANGED <<inputs, outputs, executed, execute_lock, trace, succeeded, dvars>>

\* the inputs loop is over; self.execute(duckdb) raises: the exception
\* unwinds every frame of the run (75)
ExecuteRaise ==
    /\ stack # <<>>
    /\ Top.pc = "inputs"
    /\ \A s \in LoopSet(Top) : ~ShouldStart(s)
    /\ failures < MaxFailures
    /\ failures' = failures + 1
    /\ stack' = <<>>
    /\ trace' = SetResult("raised")
    /\ runLog' = Append(runLog, Top.node)
    /\ invoked' = [invoked EXCEPT ![Top.node] = @ + 1]
    /\ UNCHANGED <<inputs, outputs, executed, execute_lock, succeeded, dvars>>

\* the outputs loop of start is over: the call returns (77-80)
StartReturn ==
    /\ stack # <<>>
    /\ Top.pc = "outputs"
    /\ \A s \in LoopSet(Top) : ~ShouldStart(s)
    /\ stack' = Pop
    /\ trace' = IF Len(stack) = 1 THEN SetResult("ok") ELSE trace
    /\ UNCHANGED <<inputs, outputs, executed, execute_lock, runLog, invoked, succeeded, failures, dvars>>

\* ---------------------------------------------------------------------------
\* Step graph: Step.completed (Metadata.py 83-94)
\* ---------------------------------------------------------------------------
\* a call of completed(step) up to its first loop: a step that is not
\* executed skips the inputs loop and clears its flags at once (84, 89-90)
CompletedFrame(step) ==
    IF executed[step]
    THEN [node |-> step, pc |-> "cinputs"]
    ELSE [node |-> step, pc |-> "coutputs"]

ClearedBy(flags, step) ==
    IF executed[step] THEN flags ELSE [flags EXCEPT ![step] = FALSE]

\* the test guarding both recursive calls of completed: lines 87 and 93
ShouldComplete(step) == executed[step]

\* a caller invokes N.completed()
TopCompleted(n) ==
    /\ stack = <<>>
    /\ Len(trace) < MaxOps
    /\ trace' = Append(trace, [op |-> "completed", node |-> n, clean |-> AllClear,
                               result |-> "running"])
    /\ stack' = <<CompletedFrame(n)>>
    /\ execute_lock' = ClearedBy(execute_lock, n)
    /\ invoked' = [s \in Steps |-> 0]
    /\ succeeded' = [s \in Steps |-> 0]
    /\ UNCHANGED <<inputs, outputs, executed, runLog, failures, dvars>>

\* either loop of completed (86-88, 92-94): the next step of the set that is
\* executed is completed; a call beyond the interpreter's stack depth raises
\* RecursionError, which unwinds every frame
CompletedVisit ==
    /\ stack # <<>>
    /\ Top.pc \in {"cinputs", "coutputs"}
    /\ \E s \in LoopSet(Top) :
        /\ ShouldComplete(s)
        /\ IF Len(stack) < MaxDepth
           THEN /\ stack' = Append(stack, CompletedFrame(s))
                /\ UNCHANGED trace
           ELSE /\ stack' = <<>>
                /\ trace' = SetResult("overflow")
    /\ UNCHANGED <<inputs, outputs, executed, execute_lock, runLog, invoked, succeeded, failures, dvars>>

\* the inputs loop is over: self.executed = False; self.execute_lock = False (89-90)
CompletedReset ==
    /\ stack # <<>>
    /\ Top.pc = "cinputs"
    /\ \A s \in LoopSet(Top) : ~ShouldComplete(s)
    /\ executed' = [executed EXCEPT ![Top.node] = FALSE]
    /\ execute_lock' = [execute_lock EXCEPT ![Top.node] = FALSE]
    /\ stack' = SetTop([Top EXCEPT !.pc = "coutputs"])
    /\ UNCHANGED <<inputs, outputs, trace, runLog, invoked, succeeded, failures, dvars>>

\* the outputs loop of completed is over: the call returns (91-94)
CompletedReturn ==
    /\ stack # <<>>
    /\ Top.pc = "coutputs"
    /\ \A s \in LoopSet(Top) : ~ShouldComplete(s)
    /\ stack' = Pop
    /\ trace' = IF Len(stack) = 1 THEN SetResult("ok") ELSE trace
    /\ UNCHANGED <<inputs, outputs, executed, execute_lock, runLog, invoked, succeeded, failures, dvars>>

\* ---------------------------------------------------------------------------
\* Step graph: vocabulary of the properties
\* ---------------------------------------------------------------------------
RECURSIVE Grow(_, _)
Grow(S, f) ==
    LET T == S \cup UNION {f[x] : x \in S}
    IN  IF T = S THEN S ELSE Grow(T, f)

TransitiveInputs(n) == Grow(inputs[n], inputs)
IsDAG == \A n \in Steps : n \notin TransitiveInputs(n)
Component(n) == Grow({n}, [x \in Steps |-> inputs[x] \cup outputs[x]])
Idle == stack = <<>>
LastOp == trace[Len(trace)]
Logged == {runLog[i] : i \in 1..Len(runLog)}

\* C5 (as claimed): on a DAG, in a run started on a graph with all flags
\* clear, every step whose execute is invoked has had the execute of each of
\* its transitive inputs invoked earlier in that run.
C5_InputsBeforeExecute ==
    (IsDAG /\ trace # <<>> /\ LastOp.op = "start" /\ LastOp.clean)
    => \A i \in 1..Len(runLog) :
          TransitiveInputs(runLog[i]) \subseteq {runLog[j] : j \in 1..(i - 1)}

\* C6 (as claimed): between a top-level start and the next completed() no
\* step's execute is invoked more than once.
C6_InvokedAtMostOnce == \A s \in Steps : invoked[s] <= 1

\* C6 (amended): between a top-level start and the next completed() no
\* step's execute returns more than once, and one top-level start never
\* invokes the execute of a step twice; only an execute that raised is
\* invoked again by a later start.
C6_ExecutedAtMostOnce ==
    /\ \A s \in Steps : succeeded[s] <= 1
    /\ \A i \in 1..Len(runLog), j \in 1..Len(runLog) : runLog[i] = runLog[j] => i = j
    /\ \A s \in Steps : invoked[s] <= succeeded[s] + failures

\* C6 witness: a step was invoked by two starts without a completed() in
\* between, the first invocation raised and the second returned.
C6_Witness == \E s \in Steps : invoked[s] = 2 /\ succeeded[s] = 1 /\ Idle

\* C7 (as claimed): on a DAG, completed() called on any step of the started
\* component right after a start that finished without error leaves every
\* step of the connected component with executed = false and
\* execute_lock = false.
C7_CompletedClearsComponent ==
    (/\ IsDAG /\ Idle /\ Len(trace) >= 2
     /\ LastOp.op = "completed"
     /\ trace[Len(trace) - 1].op = "start"
     /\ trace[Len(trace) - 1].result = "ok"
     /\ LastOp.node \in Component(trace[Len(trace) - 1].node))
    => \A s \in Component(LastOp.node) : ~executed[s] /\ ~execute_lock[s]

\* C8 (as claimed): on a DAG, after a start on N that a raising execute
\* aborted (all flags clear before it), completed() on N and a further start
\* on N that finishes without error, every step of N's connected component
\* has been executed by that last start.
C8_RecoveryByCompleted ==
    (/\ IsDAG /\ Idle /\ Len(trace) >= 3
     /\ trace[Len(trace) - 2].op = "start"
     /\ trace[Len(trace) - 2].result = "raised"
     /\ trace[Len(trace) - 2].clean
     /\ trace[Len(trace) - 1].op = "completed"
     /\ trace[Len(trace) - 1].node = trace[Len(trace) - 2].node
     /\ LastOp.op = "start"
     /\ LastOp.node = trace[Len(trace) - 2].node
     /\ LastOp.result = "ok")
    => Component(LastOp.node) \subseteq Logged

\* ---------------------------------------------------------------------------
\* Specification of the step graph: any graph of Steps wired with add_input /
\* add_output between two different steps (cycles included), then any
\* sequence of top-level start() and completed() calls
\* ---------------------------------------------------------------------------
\* the dataflow part of the state is not used by the step graph
NoDataflow ==
    /\ pipeline = "none" /\ tc = "none" /\ scd2 = "none" /\ loader = "none"
    /\ source = {} /\ target = {} /\ cdc = {} /\ cv = {}
    /\ now = 1 /\ compared = FALSE /\ starts = 0 /\ ran = FALSE /\ hist = <<>> /\ issued = <<>>
    /\ gk = "none" /\ cfg = "none" /\ pre = "none" /\ outcome = "none"

InitGraph ==
    /\ NoDataflow
    /\ inputs = [s \in Steps |-> {}]
    /\ outputs = [s \in Steps |-> {}]
    /\ executed = [s \in Steps |-> FALSE]
    /\ execute_lock = [s \in Steps |-> FALSE]
    /\ stack = <<>>
    /\ trace = <<>>
    /\ runLog = <<>>
    /\ invoked = [s \in Steps |-> 0]
    /\ succeeded = [s \in Steps |-> 0]
    /\ failures = 0

NextGraph ==
    \/ \E x \in Steps : \E y \in Steps \ {x} : add_input(x, y)
    \/ \E x \in Steps : \E y \in Steps \ {x} : add_output(x, y)
    \/ \E n \in Steps : TopStart(n)
    \/ StartVisit
    \/ ExecuteOk
    \/ ExecuteRaise
    \/ \E n \in Steps : TopCompleted(n)
    \/ CompletedVisit
    \/ CompletedReset
    \/ StartReturn
    \/ CompletedReturn

SpecGraph == InitGraph /\ [][NextGraph]_vars

\* ---------------------------------------------------------------------------
\* Tables: a table is the set of its rows, a row maps column names to values
\* ---------------------------------------------------------------------------
\* bounds of the data
\* number of Dataflow.start calls of one behaviour
MaxStarts == 3
\* number of rows of the comparison table Comparison.execute is tried on
MaxCmpRows == 2

CHANGE_TYPE == "__change_type"
None == "None"
\* SQL NULL of a numeric or timestamp column (keys and timestamps are >= 1)
NullNum == -1
\* SQL NULL of a varchar column
NullStr == "NULL"
\* datetime.strptime('9999-12-31', '%Y-%m-%d')
TerminationDate == 9999

SourceCols ==
    IF pipeline = "history" THEN {"customer_id", "first_name", "change_date"}
    ELSE {"customer_id", "first_name"}
Scd2Cols == {"version_id", "start_date", "end_date", "current"}
TargetCols ==
    IF pipeline = "scd2" THEN SourceCols \cup Scd2Cols
    ELSE IF pipeline = "keyed" THEN SourceCols \cup {"version_id"}
    ELSE SourceCols
NullOf(col) == IF col \in {"version_id", "start_date", "end_date", "change_date"} THEN NullNum ELSE NullStr

Project(row, cols) == [c \in cols |-> row[c]]
ProjectAll(rows, cols) == {Project(r, cols) : r \in rows}
Nulls(cols) == [c \in cols |-> NullOf(c)]
Typed(t) == [c \in {CHANGE_TYPE} |-> t]

\* ---------------------------------------------------------------------------
\* Comparison.execute (CDCTransforms.py 98-211)
\* ---------------------------------------------------------------------------
\* create_join_condition(self.pk_list, "s", "t"): 148
\* the primary key execute compares on (100-119): self.pk_list as __init__
\* left it, else the primary key of the comparison Table, else, but only
\* when the comparison is no Table, that of the source Table; {} where
\* line 118 raises
ComparisonPk ==
    IF tc.pk_list # {} THEN tc.pk_list
    ELSE IF cfg.comparison_is_table THEN cfg.comparison_pk
    ELSE IF cfg.source_is_table THEN cfg.source_catalog_pk
    ELSE {}

SamePkOf(s, t) == Project(s, ComparisonPk) = Project(t, ComparisonPk)

\* input_columns: 123-124
InputColumns == SourceCols \ {CHANGE_TYPE}
\* compare_columns: 134-137
CompareColumns ==
    IF tc.columns_to_ignore = {} THEN InputColumns
    ELSE InputColumns \ tc.columns_to_ignore
\* additional_columns: 140-141
AdditionalColumns == (TargetCols \ InputColumns) \ {CHANGE_TYPE}

\* a Comparison that would read the closed versions too
TcNoFilter(comparison) == comparison

\* "from comparison_table {tc_filter}": 154-156, 162
TcFilter(comparison) ==
    IF tc.end_date_column = None THEN comparison
    ELSE {r \in comparison : r[tc.end_date_column] = tc.termination_date}

\* a row_number() without ORDER BY: any row of the partition
RowNumberAny(rows, pk) == {r \in rows : Project(r, ComparisonPk) = pk}

\* the rows of one partition that row_number() can number 1: with an
\* order_column the rows of greatest value, without one any row (151-153, 161)
RowNumberOne(rows, pk) ==
    LET part == {r \in rows : Project(r, ComparisonPk) = pk}
    IN  IF tc.order_column = None THEN part
        ELSE {r \in part : \A q \in part : q[tc.order_column] <= r[tc.order_column]}

\* every table the CTE current_version can evaluate to: one row per primary
\* key of the filtered comparison table (159-165)
CurrentVersions(comparison) ==
    LET rows == TcFilter(comparison)
        pks == ProjectAll(rows, ComparisonPk)
    IN  {{f[pk] : pk \in pks} :
            f \in {g \in [pks -> rows] : \A pk \in pks : g[pk] \in RowNumberOne(rows, pk)}}

\* a changed CTE that would lack the EXCEPT
ChangedAll(src, current_version) == ProjectAll(src, CompareColumns)

\* the CTE changed: "select compare_columns from source except select
\* compare_columns from current_version" (167-170)
Changed(src, current_version) ==
    ProjectAll(src, CompareColumns) \ ProjectAll(current_version, CompareColumns)

\* first branch of the union: 171-172
InsertBranch(src, current_version) ==
    {Project(s, InputColumns) @@ Nulls(AdditionalColumns) @@ Typed("I") :
        s \in {x \in src : Project(x, ComparisonPk) \notin ProjectAll(current_version, ComparisonPk)}}

\* "source as s join current_version as t on s.pk = t.pk join changed k on
\* k.pk = t.pk": 175, 182-183
JoinChanged(src, current_version) ==
    {j \in src \X current_version \X Changed(src, current_version) :
        /\ Project(j[1], ComparisonPk) = Project(j[2], ComparisonPk)
        /\ Project(j[3], ComparisonPk) = Project(j[2], ComparisonPk)}

\* second branch of the union: 174-175
UpdateBranch(src, current_version) ==
    {Project(j[1], InputColumns) @@ Project(j[2], AdditionalColumns) @@ Typed("U") :
        j \in JoinChanged(src, current_version)}

\* a before-image branch that would lack the join on changed
BeforeAll(src, current_version) ==
    IF tc.before_image
    THEN {Project(t, InputColumns) @@ Project(t, AdditionalColumns) @@ Typed("B") :
            t \in {x \in current_version : \E s \in src : SamePkOf(s, x)}}
    ELSE {}

\* third branch, when before_image: 177-184
BeforeBranch(src, current_version) ==
    IF tc.before_image
    THEN {Project(j[2], InputColumns) @@ Project(j[2], AdditionalColumns) @@ Typed("B") :
            j \in JoinChanged(src, current_version)}
    ELSE {}

\* fourth branch, when detect_deletes: it reads comparison_table, not
\* current_version (185-191)
DeleteBranch(src, comparison) ==
    IF tc.detect_deletes
    THEN {Project(s, InputColumns) @@ Project(s, AdditionalColumns) @@ Typed("D") :
            s \in {x \in comparison : Project(x, ComparisonPk) \notin ProjectAll(src, ComparisonPk)}}
    ELSE {}

\* the rows inserted into the re-created CDC table (192-208)
Comparison(src, comparison, current_version) ==
    InsertBranch(src, current_version) \cup UpdateBranch(src, current_version)
        \cup BeforeBranch(src, current_version) \cup DeleteBranch(src, comparison)

\* Comparison.execute called on its own
ComparisonExecute ==
    /\ ~compared
    /\ IF ComparisonPk = {}
       THEN /\ outcome' = "NoPrimaryKey"
            /\ UNCHANGED <<tc, cv, cdc>>
       ELSE /\ \E v \in CurrentVersions(target) :
                /\ cv' = v
                /\ cdc' = Comparison(source, target, v)
            /\ tc' = [tc EXCEPT !.pk_list = ComparisonPk]
            /\ outcome' = "done"
    /\ compared' = TRUE
    /\ UNCHANGED <<gvars, pipeline, scd2, loader, source, target, now, starts, ran, hist,
                   issued, gk, cfg, pre>>

\* ---------------------------------------------------------------------------
\* SCD2.execute (CDCTransforms.py 280-346): one UPDATE over the CDC table
\* ---------------------------------------------------------------------------
\* the value the UPDATE assigns to one row; a CASE without ELSE yields NULL;
\* every right-hand side reads the row as it was before the UPDATE
SCD2Row(r, start_date, end_date) ==
    LET t == r[CHANGE_TYPE]
        start == IF t = "I"
                 THEN (IF r[scd2.start_date_column] = NullNum THEN start_date
                       ELSE r[scd2.start_date_column])
                 ELSE IF t = "U" THEN start_date
                 ELSE IF t \in {"B", "D"} THEN r[scd2.start_date_column]
                 ELSE NullNum
        end == IF t \in {"I", "U"} THEN scd2.termination_date
               ELSE IF t \in {"B", "D"} THEN end_date
               ELSE NullNum
        flag == IF t \in {"I", "U"} THEN scd2.current_flag_set
                ELSE IF t \in {"B", "D"} THEN scd2.current_flag_unset
                ELSE NullStr
        type == IF t \in {"I", "U"} THEN "I"
                ELSE IF t \in {"B", "D"} THEN "U"
                ELSE NullStr
        dated == [r EXCEPT ![scd2.start_date_column] = start,
                           ![scd2.end_date_column] = end,
                           ![CHANGE_TYPE] = type]
    IN  IF scd2.current_flag_column = None THEN dated
        ELSE [dated EXCEPT ![scd2.current_flag_column] = flag]

\* start_date defaults to datetime.now(), end_date to start_date (284-289)
SCD2Table(rows, clock) ==
    LET start_date == IF scd2.start_date = NullNum THEN clock ELSE scd2.start_date
        end_date == IF scd2.end_date = NullNum THEN start_date ELSE scd2.end_date
    IN  {SCD2Row(r, start_date, end_date) : r \in rows}

\* ---------------------------------------------------------------------------
\* DuckDBTable.execute (Loaders.py 90-160), source is CDC, target is not
\* ---------------------------------------------------------------------------
Max(S) == CHOOSE x \in S : \A y \in S : y <= x

\* a sequence that would restart at 1 on every run
KeyStartOne(tgt) == 1

\* get_generated_key_start: 74-88; max() skips NULL and is NULL on no rows
get_generated_key_start(tgt) ==
    IF loader.start_value # NullNum THEN loader.start_value
    ELSE LET keys == {r[loader.generated_key_column] : r \in tgt} \ {NullNum}
         IN  IF keys = {} THEN 1 ELSE Max(keys) + 1

\* cols: the columns of the source without __change_type (the target has
\* none) and without the generated key (112-125)
LoadCols == ((TargetCols \cup {CHANGE_TYPE}) \ {CHANGE_TYPE}) \ {loader.generated_key_column}

\* update_set_str: 129-134
UpdateSetCols == (LoadCols \ loader.pk_list) \ {loader.generated_key_column}

\* the values nextval hands to the inserted rows: consecutive from the start
\* of the re-created sequence, in the order the engine scans the rows (118-124)
KeyAssignments(rows, tgt) ==
    LET first == get_generated_key_start(tgt)
        keys == first .. (first + Cardinality(rows) - 1)
    IN  {f \in [rows -> keys] : \A x \in rows, y \in rows : f[x] = f[y] => x = y}

\* INSERT ... SELECT cols, nextval from source where __change_type = 'I' (137-143)
LoaderInsert(tgt, rows, key) ==
    tgt \cup {IF loader.generated_key_column = None THEN Project(r, LoadCols)
              ELSE Project(r, LoadCols) @@ [c \in {loader.generated_key_column} |-> key[r]] :
                r \in {x \in rows : x[CHANGE_TYPE] = "I"}}

\* UPDATE target set cols = s.cols from source s where s.pk = target.pk and
\* s.__change_type = 'U' (144-149)
LoaderUpdate(tgt, rows) ==
    LET match(x) == {s \in rows : /\ s[CHANGE_TYPE] = "U"
                                  /\ Project(s, loader.pk_list) = Project(x, loader.pk_list)}
        set(x, s) == [c \in DOMAIN x |-> IF c \in UpdateSetCols THEN s[c] ELSE x[c]]
    IN  {IF match(x) = {} THEN x ELSE set(x, CHOOSE s \in match(x) : TRUE) : x \in tgt}

\* a DELETE that would select the before images instead of the deletes
LoaderDeleteBefore(tgt, rows) ==
    {x \in tgt : Project(x, loader.pk_list) \notin
                    ProjectAll({s \in rows : s[CHANGE_TYPE] = "B"}, loader.pk_list)}

\* DELETE FROM target where pk in (select pk from source where
\* __change_type = 'D') (150-155)
LoaderDelete(tgt, rows) ==
    {x \in tgt : Project(x, loader.pk_list) \notin
                    ProjectAll({s \in rows : s[CHANGE_TYPE] = "D"}, loader.pk_list)}

\* the three statements in the order they are executed
LoaderApply(tgt, rows, key) ==
    LoaderDelete(LoaderUpdate(LoaderInsert(tgt, rows, key), rows), rows)

\* ---------------------------------------------------------------------------
\* The dataflow of the tests: csv_data -> Comparison -> [SCD2 ->] DuckDBTable,
\* run by Dataflow.start (Dataflow.py 24-33) and reset by Step.completed
\* ---------------------------------------------------------------------------
\* Dataflow.nodes, in the order the steps were added
Nodes ==
    IF pipeline = "scd2" THEN <<"csv_data", "tc", "scd2", "customer_output">>
    ELSE <<"csv_data", "tc", "customer_output">>
NodeSet == {Nodes[i] : i \in 1..Len(Nodes)}

\* the edges the constructors wire with add_input: each step has its
\* predecessor in Dataflow.nodes as only input
ChainInputs(nodes) ==
    [n \in {nodes[i] : i \in 1..Len(nodes)} |->
        {nodes[i] : i \in {j \in 1..(Len(nodes) - 1) : nodes[j + 1] = n}}]
ChainOutputs(nodes) ==
    [n \in {nodes[i] : i \in 1..Len(nodes)} |->
        {nodes[i + 1] : i \in {j \in 1..(Len(nodes) - 1) : nodes[j] = n}}]

\* execute of each step, as the set of states it can leave: Comparison
\* re-creates the CDC table, SCD2 rewrites it in place and reads the clock,
\* the Loader applies it to the target; the Table csv_data does nothing
\* (Dataset.execute, Metadata.py 176-177)
Execute(st, step) ==
    IF step = "tc"
    THEN {[st EXCEPT !.cdc = Comparison(st.source, st.target, v), !.cv = v] :
            v \in CurrentVersions(st.target)}
    ELSE IF step = "scd2"
    THEN {[st EXCEPT !.cdc = SCD2Table(st.cdc, st.now), !.now = st.now + 1]}
    ELSE IF step = "customer_output"
    THEN IF loader.pk_list = {}
         \* neither a logical nor a declared primary key: INSERT INTO target
         \* SELECT cols FROM source (Loaders.py 206-212); the tables are sets
         \* of rows, a row appended twice is held once
         THEN {[st EXCEPT !.target = st.target \cup st.cdc, !.ran = TRUE]}
         ELSE IF loader.generated_key_column = None
         THEN {[st EXCEPT !.target = LoaderApply(st.target, st.cdc, <<>>), !.ran = TRUE]}
         ELSE {[st EXCEPT !.target = LoaderApply(st.target, st.cdc, k), !.ran = TRUE,
                          !.issued = Append(st.issued, {k[x] : x \in DOMAIN k})] :
                 k \in KeyAssignments({x \in st.cdc : x[CHANGE_TYPE] = "I"}, st.target)}
    ELSE {st}

\* Step.start (Metadata.py 68-80) run to its end, as the set of states it
\* can end in.  The sets inputs and outputs of a chain hold one step at
\* most, so the order of the two loops is immaterial here.
RECURSIVE StartStep(_, _), StartEach(_, _)
StartEach(S, steps) ==
    IF steps = {} THEN S
    ELSE LET s == CHOOSE x \in steps : TRUE
         IN  StartEach(UNION {IF ~st.executed[s] /\ ~st.execute_lock[s]
                              THEN StartStep(st, s) ELSE {st} : st \in S},
                       steps \ {s})
StartStep(st, n) ==
    LET locked == [st EXCEPT !.execute_lock[n] = TRUE]
        done == IF ~locked.executed[n]
                THEN {[e EXCEPT !.executed[n] = TRUE] :
                        e \in UNION {Execute(i, n) : i \in StartEach({locked}, inputs[n])}}
                ELSE {locked}
    IN  StartEach(done, outputs[n])

\* Step.completed (Metadata.py 83-94) run to its end on the flags
RECURSIVE CompletedStep(_, _), CompletedEach(_, _)
CompletedEach(f, steps) ==
    IF steps = {} THEN f
    ELSE LET s == CHOOSE x \in steps : TRUE
         IN  CompletedEach(IF f.executed[s] THEN CompletedStep(f, s) ELSE f, steps \ {s})
CompletedStep(f, n) ==
    LET a == IF f.executed[n] THEN CompletedEach(f, inputs[n]) ELSE f
        r == [a EXCEPT !.executed[n] = FALSE, !.execute_lock[n] = FALSE]
    IN  CompletedEach(r, outputs[n])

\* one run as the tests make it: the caller replaces the content of the
\* source table csv_data by rows, then Dataflow.start: self.nodes[0].start(duckdb)
DataflowStart(rows) ==
    /\ starts < MaxStarts
    /\ source' = rows
    /\ \E st \in StartStep([executed |-> executed, execute_lock |-> execute_lock,
                            cdc |-> cdc, target |-> target, cv |-> cv, now |-> now,
                            ran |-> FALSE, source |-> rows, issued |-> issued], Nodes[1]) :
        /\ executed' = st.executed
        /\ execute_lock' = st.execute_lock
        /\ cdc' = st.cdc
        /\ target' = st.target
        /\ cv' = st.cv
        /\ now' = st.now
        /\ ran' = st.ran
        /\ hist' = IF st.ran THEN Append(hist, rows) ELSE hist
        /\ issued' = st.issued
    /\ starts' = starts + 1
    /\ UNCHANGED <<inputs, outputs, stack, trace, runLog, invoked, succeeded, failures,
                   pipeline, tc, scd2, loader, compared, svars>>

\* the caller invokes completed() on a step of the dataflow
Completed(n) ==
    /\ LET f == CompletedStep([executed |-> executed, execute_lock |-> execute_lock], n)
       IN  /\ executed' = f.executed
           /\ execute_lock' = f.execute_lock
    /\ UNCHANGED <<inputs, outputs, stack, trace, runLog, invoked, succeeded, failures, dvars>>

\* ---------------------------------------------------------------------------
\* Inputs
\* ---------------------------------------------------------------------------
PkUnique(rows) == \A x \in rows, y \in rows : x.customer_id = y.customer_id => x = y

\* the customers of the test data: one whose first name changes, two others
SourceRows ==
    {[customer_id |-> "56b3cEA1E6A49F1", first_name |-> "Barry"],
     [customer_id |-> "56b3cEA1E6A49F1", first_name |-> "Berry"],
     [customer_id |-> "eF43a70995dabAB", first_name |-> "Terrance"],
     [customer_id |-> "FaE5E3c1Ea0dAf6", first_name |-> "Fritz"]}
\* the contents loaded into the source table: primary key unique, and holding at
\* most one of Terrance and Fritz, like the two files of the tests
Sources ==
    {S \in SUBSET SourceRows :
        PkUnique(S) /\ Cardinality({r \in S : r.first_name \in {"Terrance", "Fritz"}}) <= 1}

\* the sources Comparison.execute is tried on: any primary-key-unique table
CmpSources == {S \in SUBSET SourceRows : PkUnique(S)}

\* Comparison as the tests configure it (transform-test.py 24-26, 110)
TestComparison(detect_deletes) ==
    [pk_list |-> {"customer_id"}, columns_to_ignore |-> {},
     order_column |-> IF pipeline = "scd2" THEN "version_id" ELSE None,
     before_image |-> TRUE, detect_deletes |-> detect_deletes,
     end_date_column |-> IF pipeline = "scd2" THEN "end_date" ELSE None,
     termination_date |-> TerminationDate]

\* SCD2 as test_scd2 configures it (transform-test.py 28-30)
TestSCD2 ==
    [start_date_column |-> "start_date", end_date_column |-> "end_date",
     start_date |-> NullNum, end_date |-> NullNum,
     termination_date |-> TerminationDate, current_flag_column |-> "current",
     current_flag_set |-> "Y", current_flag_unset |-> "N"]

\* DuckDBTable as the tests configure it (transform-test.py 31-35, 112)
TestLoader ==
    IF pipeline = "scd2"
    THEN [pk_list |-> {"version_id"}, generated_key_column |-> "version_id",
          start_value |-> NullNum]
    ELSE [pk_list |-> {"customer_id"}, generated_key_column |-> None,
          start_value |-> NullNum]

\* no step has been executed on its own
NoStepRun == gk = "none" /\ cfg = "none" /\ pre = "none" /\ outcome = "none"

NoGraphRun ==
    /\ stack = <<>> /\ trace = <<>> /\ runLog = <<>> /\ failures = 0
    /\ invoked = [s \in Steps |-> 0] /\ succeeded = [s \in Steps |-> 0]

\* ---------------------------------------------------------------------------
\* Specification of the dataflow: the pipelines of test_tc_same and
\* test_scd2 with detect_deletes on or off, an empty target, and any
\* sequence of runs (load of the source, Dataflow.start) and completed() calls
\* ---------------------------------------------------------------------------
InitPipeline ==
    /\ NoGraphRun
    /\ pipeline \in {"plain", "scd2"}
    /\ \E dd \in BOOLEAN : tc = TestComparison(dd)
    /\ scd2 = TestSCD2
    /\ loader = TestLoader
    /\ inputs = ChainInputs(Nodes)
    /\ outputs = ChainOutputs(Nodes)
    /\ executed = [n \in NodeSet |-> FALSE]
    /\ execute_lock = [n \in NodeSet |-> FALSE]
    /\ source = {} /\ target = {} /\ cdc = {} /\ cv = {}
    /\ now = 1 /\ compared = FALSE /\ starts = 0 /\ ran = FALSE /\ hist = <<>> /\ issued = <<>>
    /\ NoStepRun

NextPipeline ==
    \/ \E rows \in Sources : DataflowStart(rows)
    \/ \E n \in NodeSet : Completed(n)

SpecPipeline == InitPipeline /\ [][NextPipeline]_vars

\* ---------------------------------------------------------------------------
\* Specification of Comparison.execute alone: any source, any comparison
\* table of at most MaxCmpRows rows and any setting of the transform
\* ---------------------------------------------------------------------------
\* one version of a customer in an SCD2 target: open, or closed at time 2
CmpVersion(row, key, end) ==
    row @@ [version_id |-> key, start_date |-> 1, end_date |-> end,
            current |-> IF end = TerminationDate THEN "Y" ELSE "N"]

\* comparison tables: versions keyed 1..n with the SCD2 columns, or rows
\* of the columns of the source (several rows of one key included)
CmpTables ==
    IF pipeline = "scd2"
    THEN UNION {{{CmpVersion(f[i][1], i, f[i][2]) : i \in 1..n} :
                    f \in [1..n -> SourceRows \X {TerminationDate, 2}]} :
                n \in 0..MaxCmpRows}
    ELSE {T \in SUBSET SourceRows : Cardinality(T) <= MaxCmpRows}

\* settings of Comparison.__init__ (17-86) the columns of the table allow
CmpSettings ==
    {c \in [pk_list : {{"customer_id"}},
            columns_to_ignore : {{}, {"first_name"}},
            order_column : {None, "version_id"},
            before_image : BOOLEAN,
            detect_deletes : BOOLEAN,
            end_date_column : {None, "end_date"},
            termination_date : {TerminationDate}] :
        pipeline = "plain" => (c.order_column = None /\ c.end_date_column = None)}

InitCmp ==
    /\ NoGraphRun
    /\ pipeline \in {"plain", "scd2"}
    /\ tc \in CmpSettings
    /\ scd2 = "none" /\ loader = "none"
    /\ inputs = ChainInputs(<<"tc">>)
    /\ outputs = ChainOutputs(<<"tc">>)
    /\ executed = [n \in {"tc"} |-> FALSE]
    /\ execute_lock = [n \in {"tc"} |-> FALSE]
    /\ source \in CmpSources
    /\ target \in CmpTables
    /\ cdc = {} /\ cv = {}
    /\ now = 1 /\ compared = FALSE /\ starts = 0 /\ ran = FALSE /\ hist = <<>> /\ issued = <<>>
    /\ NoStepRun

NextCmp == ComparisonExecute

SpecCmp == InitCmp /\ [][NextCmp]_vars

\* ---------------------------------------------------------------------------
\* Properties of the transforms and of the dataflow
\* ---------------------------------------------------------------------------
SamePk(x, y) == Project(x, tc.pk_list) = Project(y, tc.pk_list)

\* C1: for every row of a primary-key-unique source, Comparison.execute
\* emits exactly one 'I' row (extra columns NULL) when its key is not in the
\* current version; exactly one 'U' row carrying the source values and the
\* extra columns of the current version (next to the 'B' row of the before
\* image) when the key is there and a compare column differs; and no row at
\* all when the key is there and all compare columns are equal.
C1_ComparisonRows ==
    compared =>
        \A s \in source :
            LET cur == {c \in cv : SamePk(c, s)}
                out == {r \in cdc : SamePk(r, s)}
            IN  /\ Cardinality(cur) <= 1
                /\ cur = {} => out = {s @@ Nulls(AdditionalColumns) @@ Typed("I")}
                /\ \A c \in cur :
                    IF Project(s, CompareColumns) # Project(c, CompareColumns)
                    THEN {r \in out : r[CHANGE_TYPE] # "B"} =
                            {s @@ Project(c, AdditionalColumns) @@ Typed("U")}
                    ELSE out = {}

\* one execution that meets the three cases: a new key, a changed row with
\* its extra columns, an unchanged row
C1_Witness ==
    /\ compared
    /\ AdditionalColumns # {}
    /\ \E i \in source, u \in source, n \in source :
        /\ i @@ Nulls(AdditionalColumns) @@ Typed("I") \in cdc
        /\ \E c \in cv : /\ c.version_id # NullNum
                         /\ u @@ Project(c, AdditionalColumns) @@ Typed("U") \in cdc
        /\ n \in ProjectAll(cv, InputColumns)
        /\ \A r \in cdc : ~SamePk(r, n)

Versions(id) == {r \in target : r.customer_id = id}
Active(r) == r[scd2.current_flag_column] = scd2.current_flag_set
LastRun == hist[Len(hist)]

\* C2: in the SCD2 pipeline, after the Loader has finished a run, the
\* target holds exactly one row flagged current for every primary key of
\* that run's source.
C2_OneActivePerKey ==
    (pipeline = "scd2" /\ hist # <<>>) =>
        \A s \in LastRun :
            Cardinality({r \in Versions(s.customer_id) : Active(r)}) = 1

\* a run after which a key of the source has closed versions and its active one
C2_Witness ==
    /\ pipeline = "scd2" /\ Len(hist) >= 2
    /\ \E s \in LastRun :
        /\ Cardinality({r \in Versions(s.customer_id) : Active(r)}) = 1
        /\ Cardinality({r \in Versions(s.customer_id) : ~Active(r)}) >= 2

\* the two files of test_scd2
Customers == {[customer_id |-> "56b3cEA1E6A49F1", first_name |-> "Barry"],
              [customer_id |-> "eF43a70995dabAB", first_name |-> "Terrance"]}
CustomersChange01 == {[customer_id |-> "56b3cEA1E6A49F1", first_name |-> "Berry"],
                      [customer_id |-> "FaE5E3c1Ea0dAf6", first_name |-> "Fritz"]}

\* C3: in the SCD2 pipeline, when a row goes A -> B -> A over three
\* consecutive runs the target has three versions of it with distinct
\* surrogate keys, the first and the third with the values A, the second
\* with B, only the third active (and no other version when these are the
\* first three runs); after the three runs of the customer scenario with
\* detect_deletes the target has 6 rows, the two active ones being the
\* rows of the last source, and four closed ones.
C3_RoundTrip ==
    (pipeline = "scd2" /\ Len(hist) >= 3) =>
        /\ \A a \in LastRun, b \in hist[Len(hist) - 1] :
            (a \in hist[Len(hist) - 2] /\ b.customer_id = a.customer_id /\ b # a) =>
                \E v1 \in target, v2 \in target, v3 \in target :
                    /\ v1.version_id < v2.version_id /\ v2.version_id < v3.version_id
                    /\ Project(v1, SourceCols) = a
                    /\ Project(v2, SourceCols) = b
                    /\ Project(v3, SourceCols) = a
                    /\ ~Active(v1) /\ ~Active(v2) /\ Active(v3)
                    /\ \A r \in Versions(a.customer_id) : Active(r) => r = v3
                    /\ Len(hist) = 3 => Versions(a.customer_id) = {v1, v2, v3}
        /\ (tc.detect_deletes /\ hist = <<Customers, CustomersChange01, Customers>>) =>
            /\ Cardinality(target) = 6
            /\ Cardinality({r.version_id : r \in target}) = 6
            /\ ProjectAll({r \in target : Active(r)}, SourceCols) = Customers
            /\ Cardinality({r \in target : Active(r)}) = 2
            /\ Cardinality({r \in target : ~Active(r)}) = 4

\* the customer scenario has run
C3_Witness ==
    /\ pipeline = "scd2" /\ tc.detect_deletes
    /\ hist = <<Customers, CustomersChange01, Customers>>
    /\ Cardinality(target) = 6

\* C4: a run whose source is the source of the previous run leaves an empty
\* CDC table and does not change the target, in every mode of the pipeline.
C4_IdentityRun ==
    [][(hist # <<>> /\ hist' = Append(hist, LastRun)) => (cdc' = {} /\ target' = target)]_vars

\* C9: every Dataflow.start runs the pipeline up to the Loader, whether or
\* not completed() was called since the previous start.
C9_EveryStartRuns ==
    [][starts' = starts + 1 => (ran' /\ hist' = Append(hist, source'))]_vars

\* C10: in the plain pipeline with detect_deletes, after every executed run
\* the target holds exactly the rows of that run's source.
C10_TargetIsSource ==
    (pipeline = "plain" /\ tc.detect_deletes /\ hist # <<>>) => target = LastRun

\* a run that had to insert a key, update a row and delete a key
C10_Witness ==
    /\ pipeline = "plain" /\ tc.detect_deletes /\ Len(hist) >= 2
    /\ target = LastRun
    /\ LET prev == hist[Len(hist) - 1]
       IN  /\ \E x \in LastRun : x.customer_id \notin {y.customer_id : y \in prev}
           /\ \E x \in prev : x.customer_id \notin {y.customer_id : y \in LastRun}
           /\ \E x \in LastRun, y \in prev : x.customer_id = y.customer_id /\ x # y

OfType(t) == {r \in cdc : r[CHANGE_TYPE] = t}

\* C11: when end_date_column is set, Comparison.execute reads only the
\* comparison rows whose end date is the termination date: no row of the
\* CDC table, a 'D' row included, comes from a closed comparison row.
C11_ClosedRowsIgnored ==
    (compared /\ tc.end_date_column # None) =>
        \A r \in cdc :
            r[CHANGE_TYPE] \in {"U", "B", "D"} => r[tc.end_date_column] = tc.termination_date

\* C12: with the end_date_column filter, a source row whose key has only
\* closed versions in the comparison table yields an 'I' row and no other row.
C12_ClosedKeyInserted ==
    (compared /\ tc.end_date_column # None) =>
        \A s \in source :
            LET versions == {t \in target : SamePk(t, s)}
            IN  (versions # {} /\ \A t \in versions : t[tc.end_date_column] # tc.termination_date)
                => {r \in cdc : SamePk(r, s)} = {s @@ Nulls(AdditionalColumns) @@ Typed("I")}

\* a key of the source with closed versions only was compared, with a
\* payload that differs from the closed version's
C12_Witness ==
    /\ compared /\ tc.end_date_column # None
    /\ \E s \in source :
        /\ \E t \in target : SamePk(t, s) /\ t.first_name # s.first_name
        /\ \A t \in target : SamePk(t, s) => t[tc.end_date_column] # tc.termination_date
        /\ s @@ Nulls(AdditionalColumns) @@ Typed("I") \in cdc

\* C13: after Comparison.execute every row of the CDC table has a change
\* type in {I,U,B,D}; 'B' rows exist only with before_image and 'D' rows
\* only with detect_deletes, so that the row count is |I| + |U| + (|U| if
\* before_image) + (|D| if detect_deletes); with before_image every 'U' row
\* has exactly one 'B' row of the same primary key.
C13_ChangeTypes ==
    compared =>
        /\ \A r \in cdc : r[CHANGE_TYPE] \in {"I", "U", "B", "D"}
        /\ ~tc.before_image => OfType("B") = {}
        /\ ~tc.detect_deletes => OfType("D") = {}
        /\ Cardinality(cdc) =
              Cardinality(OfType("I")) + Cardinality(OfType("U"))
              + (IF tc.before_image THEN Cardinality(OfType("U")) ELSE 0)
              + (IF tc.detect_deletes THEN Cardinality(OfType("D")) ELSE 0)
        /\ tc.before_image =>
              \A u \in OfType("U") : Cardinality({b \in OfType("B") : SamePk(b, u)}) = 1

\* an execution that emitted rows of the four types
C13_Witness ==
    /\ compared /\ tc.before_image /\ tc.detect_deletes
    /\ \A t \in {"I", "U", "B", "D"} : OfType(t) # {}

\* ---------------------------------------------------------------------------
\* SCD2.execute on its own: a CDC table of any content, every setting of the
\* dates and of the current flag
\* ---------------------------------------------------------------------------
MaxCdcRows == 2

\* the columns an SCD2 target adds, as a CDC row may carry them: all NULL (a
\* new key), or those of an open or of a closed version
VersionColumns ==
    {Nulls(Scd2Cols),
     [version_id |-> 1, start_date |-> 1, end_date |-> TerminationDate, current |-> "Y"],
     [version_id |-> 1, start_date |-> 1, end_date |-> 2, current |-> "N"]}

CdcRows ==
    {s @@ v @@ Typed(t) :
        s \in {r \in SourceRows : r.first_name \in {"Barry", "Terrance"}},
        v \in VersionColumns, t \in {"I", "U", "B", "D"}}

\* the subsets of S of n elements at most
RECURSIVE SubsetsUpTo(_, _)
SubsetsUpTo(S, n) ==
    IF n = 0 THEN {{}}
    ELSE LET smaller == SubsetsUpTo(S, n - 1)
         IN  smaller \cup {T \cup {x} : T \in smaller, x \in S}

CdcTables == SubsetsUpTo(CdcRows, MaxCdcRows)

\* settings of SCD2.__init__ (214-272)
SCD2Settings ==
    [start_date_column : {"start_date"}, end_date_column : {"end_date"},
     start_date : {NullNum, 5}, end_date : {NullNum, 4},
     termination_date : {TerminationDate}, current_flag_column : {None, "current"},
     current_flag_set : {"Y"}, current_flag_unset : {"N"}]

\* the UPDATE of the branch without a current flag (319-340) names the
\* parameters $1..$3, and line 342 hands the engine five values whichever the
\* branch: the engine either takes the surplus or rejects the statement
SCD2Execute ==
    /\ outcome = "none"
    /\ pre' = [cdc |-> cdc, target |-> target]
    /\ \/ /\ cdc' = SCD2Table(cdc, now)
          /\ outcome' = "done"
       \/ /\ scd2.current_flag_column = None
          /\ cdc' = cdc
          /\ outcome' = "EngineError"
    /\ now' = now + 1
    /\ UNCHANGED <<gvars, pipeline, tc, scd2, loader, source, target, cv, compared,
                   starts, ran, hist, issued, gk, cfg>>

InitSCD2 ==
    /\ NoGraphRun
    /\ pipeline = "scd2"
    /\ tc = "none" /\ loader = "none"
    /\ scd2 \in SCD2Settings
    /\ inputs = ChainInputs(<<"scd2">>)
    /\ outputs = ChainOutputs(<<"scd2">>)
    /\ executed = [n \in {"scd2"} |-> FALSE]
    /\ execute_lock = [n \in {"scd2"} |-> FALSE]
    /\ source = {} /\ target = {} /\ cv = {}
    /\ cdc \in CdcTables
    /\ now = 1 /\ compared = FALSE /\ starts = 0 /\ ran = FALSE /\ hist = <<>> /\ issued = <<>>
    /\ NoStepRun

NextSCD2 == SCD2Execute

SpecSCD2 == InitSCD2 /\ [][NextSCD2]_vars

\* the dates execute resolved (284-289) and the row the UPDATE makes of a row
C14_StartDate == IF scd2.start_date = NullNum THEN now - 1 ELSE scd2.start_date
C14_EndDate == IF scd2.end_date = NullNum THEN C14_StartDate ELSE scd2.end_date
C14_Mapped(r) ==
    LET new == r[CHANGE_TYPE] \in {"I", "U"}
        start == IF r[CHANGE_TYPE] = "I" /\ r.start_date # NullNum THEN r.start_date
                 ELSE IF new THEN C14_StartDate ELSE r.start_date
        flag == IF scd2.current_flag_column = None THEN r.current
                ELSE IF new THEN scd2.current_flag_set ELSE scd2.current_flag_unset
    IN  [customer_id |-> r.customer_id, first_name |-> r.first_name,
         version_id |-> r.version_id, start_date |-> start,
         end_date |-> IF new THEN scd2.termination_date ELSE C14_EndDate,
         current |-> flag] @@ Typed(IF new THEN "I" ELSE "U")
\* C14: SCD2.execute maps every CDC row: I -> start = its start if not null
\* else start_date, end = termination_date, current = flag_set, type I;
\* U -> start = start_date, end = termination_date, current = flag_set, type I;
\* B and D -> start unchanged, end = end_date, current = flag_unset, type U;
\* so that only the types I and U are left
C14_SCD2Mapping ==
    outcome # "none" =>
        /\ outcome = "done"
        /\ cdc = {C14_Mapped(r) : r \in pre.cdc}
        /\ \A r \in cdc : r[CHANGE_TYPE] \in {"I", "U"}
\* the mapping wherever the engine executed the statement
C14_MappingWhenExecuted == outcome = "done" => cdc = {C14_Mapped(r) : r \in pre.cdc}

\* ---------------------------------------------------------------------------
\* GenerateKey.execute on its own (CDCTransforms.py 349-426)
\* ---------------------------------------------------------------------------
\* settings of GenerateKey.__init__ (350-378): start_value is the target Table
\* or an integer; the primary key the catalog holds for the target is cfg.target_pk
GenerateKeySettings ==
    [surrogate_key_column : {None, "version_id"},
     start_is_table : BOOLEAN,
     start_value : {NullNum, 1, 5}]

TargetPks == {{}, {"version_id"}, {"customer_id", "version_id"}}

\* the targets GenerateKey is tried on: no version, one, or two with the keys 1 and 2
KeyTargets ==
    {{},
     {CmpVersion([customer_id |-> "56b3cEA1E6A49F1", first_name |-> "Barry"], 1, TerminationDate)},
     {CmpVersion([customer_id |-> "56b3cEA1E6A49F1", first_name |-> "Barry"], 1, 2),
      CmpVersion([customer_id |-> "56b3cEA1E6A49F1", first_name |-> "Berry"], 2, TerminationDate)}}

\* the surrogate key column: the argument, else the single column of the
\* primary key of the target Table; None where line 392, 395 or 401 raises
GenerateKeyColumn ==
    IF gk.surrogate_key_column # None THEN gk.surrogate_key_column
    ELSE IF gk.start_is_table /\ Cardinality(cfg.target_pk) = 1
         THEN CHOOSE c \in cfg.target_pk : TRUE
         ELSE None

\* the start of the sequence (402-413): 0, replaced by max + 1 (1 on a NULL
\* max) only when start_value is a Table
SequenceStart(tgt, col) ==
    IF gk.start_is_table
    THEN LET keys == {r[col] : r \in tgt} \ {NullNum}
         IN  IF keys = {} THEN 1 ELSE Max(keys) + 1
    ELSE 0

\* the values nextval hands to rows: consecutive from first, in scan order
NextVals(rows, first) ==
    {f \in [rows -> first .. (first + Cardinality(rows) - 1)] :
        \A x \in rows, y \in rows : f[x] = f[y] => x = y}

\* update cdc set key = nextval(seq) where __change_type = 'I' (418-422)
SetKeys(rows, col, key) ==
    {IF r[CHANGE_TYPE] = "I" THEN [r EXCEPT ![col] = key[r]] ELSE r : r \in rows}

\* an ascending sequence has the minimum 1 unless told otherwise: on
\* "start 0" (line 415 with the 0 of line 402) the engine either creates the
\* sequence or rejects the statement
GenerateKeyExecute ==
    /\ outcome = "none"
    /\ pre' = [cdc |-> cdc, target |-> target]
    /\ LET col == GenerateKeyColumn
           first == SequenceStart(target, col)
       IN  IF col = None
           THEN cdc' = cdc /\ outcome' = "NoPrimaryKey"
           ELSE \/ /\ first < 1
                   /\ cdc' = cdc
                   /\ outcome' = "EngineError"
                \/ /\ \E key \in NextVals(OfType("I"), first) : cdc' = SetKeys(cdc, col, key)
                   /\ outcome' = "done"
    /\ UNCHANGED <<gvars, pipeline, tc, scd2, loader, source, target, now, cv, compared,
                   starts, ran, hist, issued, gk, cfg>>

\* an integer start_value is one above the keys the target holds; without a
\* surrogate_key_column the catalog is asked for the primary key
InitKey ==
    /\ NoGraphRun
    /\ pipeline = "scd2"
    /\ tc = "none" /\ loader = "none" /\ scd2 = "none"
    /\ gk \in GenerateKeySettings
    /\ gk.start_is_table <=> gk.start_value = NullNum
    /\ \E pk \in TargetPks :
        /\ gk.surrogate_key_column # None => pk = {"version_id"}
        /\ cfg = [target_pk |-> pk]
    /\ inputs = ChainInputs(<<"gk">>)
    /\ outputs = ChainOutputs(<<"gk">>)
    /\ executed = [n \in {"gk"} |-> FALSE]
    /\ execute_lock = [n \in {"gk"} |-> FALSE]
    /\ source = {} /\ cv = {}
    /\ target \in KeyTargets
    /\ ~gk.start_is_table => \A r \in target : r.version_id < gk.start_value
    /\ cdc \in CdcTables
    /\ now = 1 /\ compared = FALSE /\ starts = 0 /\ ran = FALSE /\ hist = <<>> /\ issued = <<>>
    /\ pre = "none" /\ outcome = "none"

NextKey == GenerateKeyExecute

SpecKey == InitKey /\ [][NextKey]_vars

\* C16: after GenerateKey.execute the surrogate key of the rows of type I is
\* not NULL, pairwise distinct, and differs from every key of the target
C16_KeysFresh ==
    outcome \notin {"none", "NoPrimaryKey"} =>
        \A r \in OfType("I") :
            /\ r.version_id # NullNum
            /\ \A s \in OfType("I") : s.version_id = r.version_id => s = r
            /\ \A t \in target : t.version_id # r.version_id

\* the first value of the sequence as start_value asks for it
C17_Start ==
    IF ~gk.start_is_table THEN gk.start_value
    ELSE IF target = {} THEN 1
    ELSE Max({t.version_id : t \in target}) + 1
\* C17: the keys GenerateKey hands out start at the integer start_value, or
\* else one above the greatest key of the target Table, at 1 when it has none
C17_SequenceStart ==
    outcome \notin {"none", "NoPrimaryKey"} =>
        /\ outcome = "done"
        /\ {r.version_id : r \in OfType("I")}
             = C17_Start .. (C17_Start + Cardinality(OfType("I")) - 1)
\* the same where start_value is the target Table
C17_StartFromTable ==
    (outcome \notin {"none", "NoPrimaryKey"} /\ gk.start_is_table) =>
        /\ outcome = "done"
        /\ {r.version_id : r \in OfType("I")}
             = C17_Start .. (C17_Start + Cardinality(OfType("I")) - 1)
\* the same where start_value is the target Table
C16_FreshFromTable ==
    (outcome \notin {"none", "NoPrimaryKey"} /\ gk.start_is_table) =>
        \A r \in OfType("I") :
            /\ r.version_id # NullNum
            /\ \A s \in OfType("I") : s.version_id = r.version_id => s = r
            /\ \A t \in target : t.version_id # r.version_id

\* ---------------------------------------------------------------------------
\* The dataflow csv_data -> Comparison -> DuckDBTable where the Loader fills
\* the surrogate key version_id of a target whose primary key is customer_id
\* ---------------------------------------------------------------------------
\* DuckDBTable(tc, "customer_output", pk_list = ["customer_id"],
\* generated_key_column = "version_id"), with and without a start_value (57-72)
KeyedLoaders ==
    [pk_list : {{"customer_id"}}, generated_key_column : {"version_id"},
     start_value : {NullNum, 5}]

InitKeyed ==
    /\ NoGraphRun
    /\ pipeline = "keyed"
    /\ \E dd \in BOOLEAN : tc = TestComparison(dd)
    /\ scd2 = TestSCD2
    /\ loader \in KeyedLoaders
    /\ inputs = ChainInputs(Nodes)
    /\ outputs = ChainOutputs(Nodes)
    /\ executed = [n \in NodeSet |-> FALSE]
    /\ execute_lock = [n \in NodeSet |-> FALSE]
    /\ source = {} /\ target = {} /\ cdc = {} /\ cv = {}
    /\ now = 1 /\ compared = FALSE /\ starts = 0 /\ ran = FALSE /\ hist = <<>> /\ issued = <<>>
    /\ NoStepRun

SpecKeyed == InitKeyed /\ [][NextPipeline]_vars

\* C15: whenever the Loader generates the surrogate keys, with a start_value
\* or without, no key it assigns in a run was assigned in an earlier run
C15_KeysNeverReused ==
    \A i \in 1..Len(issued) : \A j \in 1..Len(issued) :
        i < j => issued[i] \cap issued[j] = {}
\* the same for a target no row is ever deleted from, as under SCD2
C15_NoReuseWithoutDeletes ==
    (loader.start_value = NullNum /\ ~tc.detect_deletes) => C15_KeysNeverReused

\* ---------------------------------------------------------------------------
\* DuckDBTable.execute on its own (Loaders.py 90-217): every way the primary
\* key can be declared, a CDC or a plain source, a target with or without
\* the column __change_type
\* ---------------------------------------------------------------------------
MaxLoads == 2

\* cfg.catalog_pk: the PRIMARY KEY constraint of the target ({}: none);
\* loader.pk_list: the argument pk_list ({}: None)
LoadSettings ==
    {c \in [catalog_pk : {{}, {"customer_id"}}, source_is_cdc : BOOLEAN,
            is_cdc : BOOLEAN, change_type_column : BOOLEAN] :
        /\ c.is_cdc => c.change_type_column
        /\ c.change_type_column => c.source_is_cdc}

LoadLoaders ==
    [pk_list : {{}, {"customer_id"}}, generated_key_column : {None}, start_value : {NullNum}]

\* the rows of a table carry the row id of the engine, so that a table can
\* hold one content twice
NextRowId(tgt) == IF tgt = {} THEN 1 ELSE Max({x.rowid : x \in tgt}) + 1

\* INSERT INTO target(cols) SELECT cols FROM rows
RECURSIVE Stored(_, _, _)
Stored(tgt, rows, cols) ==
    IF rows = {} THEN tgt
    ELSE LET r == CHOOSE x \in rows : TRUE
         IN  Stored(tgt \cup {Project(r, cols) @@ [c \in {"rowid"} |-> NextRowId(tgt)]},
                    rows \ {r}, cols)

\* an INSERT the PRIMARY KEY constraint of the target rejects
Conflicts(tgt, rows) ==
    /\ cfg.catalog_pk # {}
    /\ \/ \E r \in rows : \E x \in tgt : Project(r, cfg.catalog_pk) = Project(x, cfg.catalog_pk)
       \/ \E r \in rows : \E s \in rows \ {r} : Project(r, cfg.catalog_pk) = Project(s, cfg.catalog_pk)

\* UPDATE target SET cols = s.cols FROM source s WHERE the pk is equal
\* [and s.__change_type = 'U'] (144-149, 186-189)
UpdateFrom(tgt, rows, pk, cols) ==
    LET match(x) == {s \in rows : Project(s, pk) = Project(x, pk)}
        set(x, s) == [c \in DOMAIN x |-> IF c \in cols \ pk THEN s[c] ELSE x[c]]
    IN  {IF match(x) = {} THEN x ELSE set(x, CHOOSE s \in match(x) : TRUE) : x \in tgt}

\* DELETE FROM target WHERE pk IN (SELECT pk FROM source WHERE __change_type = 'D')
DeleteFrom(tgt, rows, pk) ==
    {x \in tgt : Project(x, pk) \notin ProjectAll(rows, pk)}

\* INSERT OR REPLACE INTO target(cols) SELECT cols FROM source (164-169), on
\* a target that declares a primary key
Upsert(tgt, rows, cols) ==
    Stored(UpdateFrom(tgt, rows, cfg.catalog_pk, cols),
           {r \in rows : Project(r, cfg.catalog_pk) \notin ProjectAll(tgt, cfg.catalog_pk)}, cols)

\* a Loader that would leave the target alone where it knows no primary key
AppendNothing(tgt, rows, cols) == tgt

\* INSERT INTO target(cols) SELECT cols FROM source (206-212)
AppendAll(tgt, rows, cols) == Stored(tgt, rows, cols)

\* the target after execute, with the way execute ended
DuckDBTableResults(tgt, rows) ==
    LET pk == IF loader.pk_list # {} THEN loader.pk_list ELSE cfg.catalog_pk
        \* get_table_primary_key returns self.pk_list itself when it is set,
        \* so that line 107 compares pk_list with itself
        use_table_pk == IF loader.pk_list = {} THEN cfg.catalog_pk # {} ELSE TRUE
        cols == IF cfg.change_type_column THEN SourceCols \cup {CHANGE_TYPE} ELSE SourceCols
        done(t) == [target |-> t, outcome |-> "done"]
        raised == [target |-> tgt, outcome |-> "EngineError"]
        of(t) == {r \in rows : r[CHANGE_TYPE] = t}
    IN  IF cfg.source_is_cdc /\ ~cfg.is_cdc /\ pk # {}
        THEN IF Conflicts(tgt, of("I")) THEN {raised}
             ELSE {done(DeleteFrom(UpdateFrom(Stored(tgt, of("I"), cols), of("U"), pk, cols),
                                   of("D"), pk))}
        ELSE IF use_table_pk
        THEN IF cfg.catalog_pk # {}
             THEN IF \E r \in rows : \E s \in rows \ {r} :
                        Project(r, cfg.catalog_pk) = Project(s, cfg.catalog_pk)
                  THEN {raised}
                  ELSE {done(Upsert(tgt, rows, cols))}
             \* OR REPLACE on a table without any unique index: the engine
             \* either rejects the statement or inserts every row
             ELSE {raised, done(Stored(tgt, rows, cols))}
        ELSE IF pk # {}
        THEN {done(Stored(UpdateFrom(tgt, rows, pk, cols),
                          {r \in rows : Project(r, pk) \notin ProjectAll(tgt, pk)}, cols))}
        ELSE {done(AppendAll(tgt, rows, cols))}

DuckDBTableExecute ==
    /\ starts < MaxLoads
    /\ pre' = [cdc |-> cdc, target |-> target]
    /\ \E res \in DuckDBTableResults(target, IF cfg.source_is_cdc THEN cdc ELSE source) :
        /\ target' = res.target
        /\ outcome' = res.outcome
    \* line 98: self.pk_list = table_pk_list
    /\ loader' = [loader EXCEPT !.pk_list = IF @ # {} THEN @ ELSE cfg.catalog_pk]
    /\ starts' = starts + 1
    /\ UNCHANGED <<gvars, pipeline, tc, scd2, source, cdc, now, cv, compared,
                   ran, hist, issued, gk, cfg>>

\* the CDC tables the Loader is tried on have the columns of the source and __change_type
LoadCdcTables ==
    SubsetsUpTo({s @@ Typed(t) : s \in SourceRows, t \in {"I", "U", "B", "D"}}, MaxCdcRows)

\* the targets: MaxCmpRows rows at most, unique in the declared primary key
LoadTargets ==
    {Stored({}, T, DOMAIN (CHOOSE r \in T : TRUE)) :
        T \in {S \in SubsetsUpTo(IF cfg.change_type_column
                                 THEN {s @@ Typed("I") : s \in SourceRows}
                                 ELSE SourceRows, MaxCmpRows) :
                 S # {} /\ (cfg.catalog_pk # {} => PkUnique(S))}} \cup {{}}

InitLoad ==
    /\ NoGraphRun
    /\ pipeline = "plain"
    /\ tc = "none" /\ scd2 = "none" /\ gk = "none"
    /\ cfg \in LoadSettings
    /\ loader \in LoadLoaders
    /\ inputs = ChainInputs(<<"customer_output">>)
    /\ outputs = ChainOutputs(<<"customer_output">>)
    /\ executed = [n \in {"customer_output"} |-> FALSE]
    /\ execute_lock = [n \in {"customer_output"} |-> FALSE]
    /\ IF cfg.source_is_cdc THEN source = {} /\ cdc \in LoadCdcTables
       ELSE source \in CmpSources /\ cdc = {}
    /\ target \in LoadTargets
    /\ cv = {}
    /\ now = 1 /\ compared = FALSE /\ starts = 0 /\ ran = FALSE /\ hist = <<>> /\ issued = <<>>
    /\ pre = "none" /\ outcome = "none"

NextLoad == DuckDBTableExecute

SpecLoad == InitLoad /\ [][NextLoad]_vars

\* the columns execute copies (112-114)
LoadedCols == IF cfg.change_type_column THEN SourceCols \cup {CHANGE_TYPE} ELSE SourceCols

\* a CDC source, and a primary key neither given as pk_list nor declared by the target
C18_NoPrimaryKey ==
    outcome # "none" /\ cfg.source_is_cdc /\ loader.pk_list = {} /\ cfg.catalog_pk = {}

C19_OnePerKey(tgt) ==
    \A s \in source :
        \E x \in tgt : /\ Project(x, SourceCols) = s
                       /\ \A y \in tgt : y.customer_id = s.customer_id => y = x
\* C19: with a plain source and a known primary key, from the catalog or
\* from pk_list alone, the load leaves one row per key of the source with the
\* values of the source, and a second run of the same data leaves the
\* number of rows as it is
C19_UpsertByPk ==
    (outcome # "none" /\ ~cfg.source_is_cdc /\ loader.pk_list # {}) =>
        /\ outcome = "done"
        /\ (starts = 1 /\ PkUnique(pre.target)) => C19_OnePerKey(target)
        /\ starts = 2 => Cardinality(target) = Cardinality(pre.target)
\* the same where the target declares the primary key
C19_UpsertByCatalogPk ==
    (outcome # "none" /\ ~cfg.source_is_cdc /\ cfg.catalog_pk # {}) =>
        /\ outcome = "done"
        /\ (starts = 1 /\ PkUnique(pre.target)) => C19_OnePerKey(target)
        /\ starts = 2 => Cardinality(target) = Cardinality(pre.target)

\* ---------------------------------------------------------------------------
\* Comparison: where the primary key comes from (CDCTransforms.py 67-75, 100-119)
\* ---------------------------------------------------------------------------
\* logical_pk_list: the argument; source_pk_list: the pk_list the source
\* dataset declares; source_catalog_pk: the PRIMARY KEY of a source Table in
\* the catalog; comparison_pk: what get_table_primary_key yields for a
\* comparison Table; {} stands for None
PkSettings ==
    {c \in [logical_pk_list : {{}, {"customer_id"}},
            source_is_table : BOOLEAN,
            source_pk_list : {{}, {"customer_id"}},
            source_catalog_pk : {{}, {"customer_id"}},
            comparison_is_table : BOOLEAN,
            comparison_pk : {{}, {"customer_id"}, {"customer_id", "first_name"}}] :
        /\ ~c.source_is_table => c.source_catalog_pk = {}
        /\ ~c.comparison_is_table => c.comparison_pk = {}
        /\ (c.source_pk_list # {} /\ c.source_catalog_pk # {}) => c.source_pk_list = c.source_catalog_pk}

\* Comparison.__init__ (67-75): self.pk_list is the argument, else source.pk_list
InitPk ==
    /\ NoGraphRun
    /\ pipeline = "plain"
    /\ cfg \in PkSettings
    /\ \E dd \in BOOLEAN :
        tc = [TestComparison(dd) EXCEPT
                !.pk_list = IF cfg.logical_pk_list # {} THEN cfg.logical_pk_list
                            ELSE cfg.source_pk_list]
    /\ scd2 = "none" /\ loader = "none" /\ gk = "none"
    /\ inputs = ChainInputs(<<"tc">>)
    /\ outputs = ChainOutputs(<<"tc">>)
    /\ executed = [n \in {"tc"} |-> FALSE]
    /\ execute_lock = [n \in {"tc"} |-> FALSE]
    /\ source \in CmpSources
    /\ target \in CmpTables
    /\ cdc = {} /\ cv = {}
    /\ now = 1 /\ compared = FALSE /\ starts = 0 /\ ran = FALSE /\ hist = <<>> /\ issued = <<>>
    /\ pre = "none" /\ outcome = "none"

NextPk == ComparisonExecute

SpecPk == InitPk /\ [][NextPk]_vars

\* the primary key in the order argument, comparison Table, source Table
C20_SourcePk ==
    IF ~cfg.source_is_table THEN {}
    ELSE IF cfg.source_pk_list # {} THEN cfg.source_pk_list
    ELSE cfg.source_catalog_pk
C20_Expected ==
    IF cfg.logical_pk_list # {} THEN cfg.logical_pk_list
    ELSE IF cfg.comparison_is_table /\ cfg.comparison_pk # {} THEN cfg.comparison_pk
    ELSE C20_SourcePk
\* C20: Comparison takes its primary key from the argument logical_pk_list,
\* else from the comparison Table, else from the source Table, and raises
\* the no-primary-key error only when none of the three yields a key
C20_ResolutionOrder ==
    compared =>
        IF C20_Expected = {} THEN outcome = "NoPrimaryKey"
        ELSE outcome = "done" /\ tc.pk_list = C20_Expected
\* the error is raised only when no key can be had from any of the three
C20_RaisesOnlyWithoutKey ==
    (compared /\ outcome = "NoPrimaryKey") => C20_Expected = {}
\* the argument comes first
C20_ArgumentFirst ==
    (compared /\ cfg.logical_pk_list # {}) =>
        (outcome = "done" /\ tc.pk_list = cfg.logical_pk_list)

\* ---------------------------------------------------------------------------
\* Query.__init__ (Metadata.py 272-295): the placeholders {name} of the SQL
\* template against the names of the input datasets
\* ---------------------------------------------------------------------------
\* cfg.sql: the names between braces the regex finds in the template;
\* cfg.given: an inputs list was handed in; cfg.names: the datasets in it
QuerySettings ==
    {c \in [sql : SUBSET Steps, given : BOOLEAN, names : SUBSET Steps] :
        ~c.given => c.names = {}}

\* the constructor: add_input for every dataset of the list (276-278); with
\* self.inputs set (281) the loop 284-287 only discards from keys and
\* not_found_keys stays empty, so line 289 is never reached; with
\* self.inputs None, line 295 raises on the first placeholder
QueryInit ==
    /\ outcome = "none"
    /\ inputs' = [inputs EXCEPT !["q"] = cfg.names]
    /\ outputs' = [n \in DOMAIN outputs |->
                        IF n \in cfg.names THEN outputs[n] \cup {"q"} ELSE outputs[n]]
    /\ LET not_found_keys == {}
       IN  outcome' = IF cfg.names # {}
                      THEN (IF not_found_keys # {} THEN "RuntimeError" ELSE "done")
                      ELSE (IF cfg.sql # {} THEN "RuntimeError" ELSE "done")
    /\ UNCHANGED <<executed, execute_lock, stack, trace, runLog, invoked, succeeded, failures,
                   pipeline, tc, scd2, loader, source, target, cdc, now, cv, compared,
                   starts, ran, hist, issued, gk, cfg, pre>>

InitQuery ==
    /\ NoGraphRun
    /\ pipeline = "none" /\ tc = "none" /\ scd2 = "none" /\ loader = "none" /\ gk = "none"
    /\ cfg \in QuerySettings
    /\ inputs = [n \in Steps \cup {"q"} |-> {}]
    /\ outputs = [n \in Steps \cup {"q"} |-> {}]
    /\ executed = [n \in Steps \cup {"q"} |-> FALSE]
    /\ execute_lock = [n \in Steps \cup {"q"} |-> FALSE]
    /\ source = {} /\ target = {} /\ cdc = {} /\ cv = {}
    /\ now = 1 /\ compared = FALSE /\ starts = 0 /\ ran = FALSE /\ hist = <<>> /\ issued = <<>>
    /\ pre = "none" /\ outcome = "none"

NextQuery == QueryInit

SpecQuery == InitQuery /\ [][NextQuery]_vars

\* C21: constructing a Query whose template holds a placeholder that names
\* none of the declared inputs fails with an error, with an inputs list and
\* without one
C21_UnknownPlaceholderFails ==
    (outcome # "none" /\ cfg.sql \ cfg.names # {}) => outcome = "RuntimeError"
\* the same where no inputs are given
C21_FailsWithoutInputs ==
    (outcome # "none" /\ cfg.sql # {} /\ cfg.names = {}) => outcome = "RuntimeError"

\* ---------------------------------------------------------------------------
\* CDCOperation.execute on its own (CDCTransforms.py 429-513)
\* ---------------------------------------------------------------------------
\* settings of CDCOperation.__init__ (431-466): the four mappings, whether
\* column_expressions are given, and the logical primary key ({}: None)
OperationSettings ==
    [map_insert_to : {None, "I", "X"}, map_update_to : {None, "I", "X"},
     map_before_to : {None, "I", "X"}, map_delete_to : {None, "I", "X"},
     column_expressions : BOOLEAN, logical_pk_list : {{}, {"customer_id"}}]

\* the dict of lines 472-477: its keys are plain string literals, not
\* f-strings, so they are the texts between the quotes and not I, U, B, D
Mappings ==
    {<<"{RowType.INSERT.value}", cfg.map_insert_to>>,
     <<"{RowType.UPDATE.value}", cfg.map_update_to>>,
     <<"{RowType.BEFORE.value}", cfg.map_before_to>>,
     <<"{RowType.DELETE.value}", cfg.map_delete_to>>}

\* the WHEN branches of mapping_str (478-482)
MappingWhens == {m \in Mappings : m[2] # None}

\* the statement of lines 490-508 as the parser sees it: "update <table>"
\* followed by the assignment without the keyword SET, the WHEN branches
\* separated by commas, and "left join" in place of FROM
UpdateStatement ==
    [set_keyword |-> FALSE,
     whens |-> MappingWhens,
     when_separator |-> IF Cardinality(MappingWhens) > 1 THEN "," ELSE "",
     expressions |-> cfg.column_expressions,
     expression_prefix |-> IF cfg.column_expressions THEN "set" ELSE "",
     join |-> IF cfg.column_expressions THEN "left join" ELSE ""]

\* what the grammar of UPDATE accepts: SET before the assignments, WHEN
\* branches without separator, FROM for the joined table
Parses(stmt) ==
    /\ stmt.set_keyword
    /\ stmt.whens # {} \/ stmt.expressions
    /\ stmt.when_separator = ""
    /\ stmt.join # "left join"

\* CASE whens ELSE __change_type END, applied to the rows
Remapped(rows, whens) ==
    {LET hit == {m \in whens : m[1] = r[CHANGE_TYPE]}
     IN  IF hit = {} THEN r ELSE [r EXCEPT ![CHANGE_TYPE] = (CHOOSE m \in hit : TRUE)[2]] :
        r \in rows}

CDCOperationExecute ==
    /\ outcome = "none"
    /\ pre' = [cdc |-> cdc, target |-> target]
    /\ IF cfg.column_expressions /\ cfg.logical_pk_list = {}
       THEN cdc' = cdc /\ outcome' = "NoPrimaryKey"
       ELSE IF ~Parses(UpdateStatement)
       THEN cdc' = cdc /\ outcome' = "EngineError"
       ELSE cdc' = Remapped(cdc, UpdateStatement.whens) /\ outcome' = "done"
    /\ UNCHANGED <<gvars, pipeline, tc, scd2, loader, source, target, now, cv, compared,
                   starts, ran, hist, issued, gk, cfg>>

\* the CDC tables the operation is tried on
OperationTables ==
    SubsetsUpTo({s @@ Typed(t) : s \in {r \in SourceRows : r.first_name \in {"Barry", "Terrance"}},
                                 t \in {"I", "U", "B", "D"}}, MaxCdcRows)

InitOperation ==
    /\ NoGraphRun
    /\ pipeline = "plain"
    /\ tc = "none" /\ scd2 = "none" /\ loader = "none" /\ gk = "none"
    /\ cfg \in OperationSettings
    /\ inputs = ChainInputs(<<"op">>)
    /\ outputs = ChainOutputs(<<"op">>)
    /\ executed = [n \in {"op"} |-> FALSE]
    /\ execute_lock = [n \in {"op"} |-> FALSE]
    /\ source = {} /\ target = {} /\ cv = {}
    /\ cdc \in OperationTables
    /\ now = 1 /\ compared = FALSE /\ starts = 0 /\ ran = FALSE /\ hist = <<>> /\ issued = <<>>
    /\ pre = "none" /\ outcome = "none"

NextOperation == CDCOperationExecute

SpecOperation == InitOperation /\ [][NextOperation]_vars

\* the character a type is mapped to, None where it has no mapping
C22_MapOf(t) ==
    IF t = "I" THEN cfg.map_insert_to
    ELSE IF t = "U" THEN cfg.map_update_to
    ELSE IF t = "B" THEN cfg.map_before_to
    ELSE cfg.map_delete_to
\* C22: CDCOperation.execute rewrites __change_type of every row whose type
\* has a configured mapping to the mapped character and leaves the rows of
\* the unmapped types as they are
C22_TypesRemapped ==
    (outcome # "none" /\ ~cfg.column_expressions) =>
        /\ outcome = "done"
        /\ cdc = {IF C22_MapOf(r[CHANGE_TYPE]) = None THEN r
                  ELSE [r EXCEPT ![CHANGE_TYPE] = C22_MapOf(r[CHANGE_TYPE])] : r \in pre.cdc}

\* holds: the rows that agree with the current version of their key on all
\* columns outside columns_to_ignore get no U and no B row
C23_NoUpdateForIgnored ==
    (compared /\ outcome = "done") =>
        LET kept == InputColumns \ tc.columns_to_ignore
        IN  \A s \in source : \A c \in cv : \A r \in cdc :
                (/\ Project(c, tc.pk_list) = Project(s, tc.pk_list)
                 /\ Project(c, kept) = Project(s, kept)
                 /\ Project(r, tc.pk_list) = Project(s, tc.pk_list))
                    => r[CHANGE_TYPE] \notin {"U", "B"}

Stamp(rows, t) == {r @@ [c \in {"change_date"} |-> t] : r \in rows}

\* transform-test.py 153-154; before_image has its default (CDCTransforms.py 19)
HistoryComparison ==
    [pk_list |-> {"customer_id"}, columns_to_ignore |-> {"change_date"},
     order_column |-> "change_date", before_image |-> TRUE, detect_deletes |-> TRUE,
     end_date_column |-> None, termination_date |-> TerminationDate]

\* transform-test.py 157: no pk_list, no generated key
HistoryLoader == [pk_list |-> {}, generated_key_column |-> None, start_value |-> NullNum]

\* the caller re-creates csv_data from a file, then Dataflow.start (173-177)
LoadAndStart(rows) ==
    /\ starts < MaxStarts
    /\ source' = Stamp(rows, now)
    /\ \E st \in StartStep([executed |-> executed, execute_lock |-> execute_lock,
                            cdc |-> cdc, target |-> target, cv |-> cv, now |-> now + 1,
                            ran |-> FALSE, source |-> Stamp(rows, now), issued |-> issued],
                           Nodes[1]) :
        /\ executed' = st.executed
        /\ execute_lock' = st.execute_lock
        /\ cdc' = st.cdc
        /\ target' = st.target
        /\ cv' = st.cv
        /\ now' = st.now
        /\ ran' = st.ran
        /\ hist' = IF st.ran THEN Append(hist, Stamp(rows, now)) ELSE hist
        /\ pre' = IF st.ran THEN [cdc |-> cdc, target |-> target] ELSE pre
        /\ issued' = st.issued
    /\ starts' = starts + 1
    /\ UNCHANGED <<inputs, outputs, stack, trace, runLog, invoked, succeeded, failures,
                   pipeline, tc, scd2, loader, compared, gk, cfg, outcome>>

InitHistory ==
    /\ NoGraphRun /\ NoStepRun
    /\ pipeline = "history"
    /\ tc = HistoryComparison
    /\ scd2 = "none"
    /\ loader = HistoryLoader
    /\ inputs = ChainInputs(Nodes)
    /\ outputs = ChainOutputs(Nodes)
    /\ executed = [n \in NodeSet |-> FALSE]
    /\ execute_lock = [n \in NodeSet |-> FALSE]
    /\ source = {} /\ target = {} /\ cdc = {} /\ cv = {}
    /\ now = 1 /\ compared = FALSE /\ starts = 0 /\ ran = FALSE /\ hist = <<>> /\ issued = <<>>

NextHistory ==
    \/ \E rows \in Sources : LoadAndStart(rows)
    \/ \E n \in NodeSet : Completed(n)

SpecHistory == InitHistory /\ [][NextHistory]_vars

\* the row of the history a source row was compared with in the last run
\* that executed the steps
C24_ComparedWith(s) == {c \in cv : c.customer_id = s.customer_id}
\* C24: of several rows of one primary key in the comparison table the source
\* row is compared with the one of greatest order_column only, so that a
\* value flipping A -> B -> A over three runs against the append-only history
\* gives a U and a B row in the second run and again in the third
C24_GreatestOrderColumn ==
    Len(hist) >= 1 =>
        LET k == Len(hist)
        IN  /\ \A c \in cv : \A q \in pre.target :
                q.customer_id = c.customer_id => q[tc.order_column] <= c[tc.order_column]
            /\ \A s \in hist[k] : \A c \in C24_ComparedWith(s) :
                c.first_name # s.first_name =>
                    /\ s @@ Typed("U") \in cdc
                    /\ Project(c, InputColumns) @@ Typed("B") \in cdc
            /\ k >= 2 =>
                \A s \in hist[k] : \A o \in hist[k - 1] :
                    (o.customer_id = s.customer_id /\ o.first_name # s.first_name) =>
                        /\ s @@ Typed("U") \in cdc
                        /\ \E b \in cdc : /\ b[CHANGE_TYPE] = "B"
                                          /\ b.customer_id = o.customer_id
                                          /\ b.first_name = o.first_name

\* the third run of Barry -> Berry -> Barry: the history holds the U and B
\* rows of the second run, the CDC table those of the third
C24_Witness ==
    /\ Len(hist) = 3
    /\ \E a \in hist[1], b \in hist[2], c \in hist[3] :
        /\ a.first_name = "Barry" /\ b.first_name = "Berry" /\ c.first_name = "Barry"
        /\ b @@ Typed("U") \in target /\ a @@ Typed("B") \in target
        /\ c @@ Typed("U") \in cdc /\ b @@ Typed("B") \in cdc
        /\ Cardinality({q \in pre.target : q.customer_id = c.customer_id}) = 3

\* C25: when the execute of a step raises during start, the caller of start
\* gets the error, no further step is executed in that run, and every step
\* that had finished before keeps executed = true
C25_RaiseAbortsRun ==
    [][/\ failures' > failures =>
            /\ stack' = <<>>
            /\ trace' = [trace EXCEPT ![Len(trace)].result = "raised"]
            /\ executed' = executed
            /\ \A i \in 1..Len(runLog) : executed'[runLog[i]]
       /\ (trace # <<>> /\ LastOp.op = "start" /\ LastOp.result = "raised" /\ Len(trace') = Len(trace)) =>
            (invoked' = invoked /\ executed' = executed)]_vars

\* a start that a raise aborted after one step had finished and before
\* another step of the component was reached
C25_Witness ==
    /\ trace # <<>> /\ LastOp.op = "start" /\ LastOp.result = "raised" /\ LastOp.clean
    /\ Idle
    /\ Len(runLog) = 2
    /\ executed[runLog[1]] /\ ~executed[runLog[2]]
    /\ Component(LastOp.node) \ Logged # {}

\* ---------------------------------------------------------------------------
\* DeltaLakeTable.execute on its own (LoaderDeltaLake.py 24-79), on the
\* tables DuckDBTable.execute is tried on, without generated key
\* ---------------------------------------------------------------------------
\* a Delta table declares no primary key and DeltaLakeTable reads none
MergeSettings == {c \in LoadSettings : c.catalog_pk = {} /\ ~c.is_cdc}

\* cols: every column of the source, __change_type included (25, 38)
MergeCols == IF cfg.source_is_cdc THEN SourceCols \cup {CHANGE_TYPE} ELSE SourceCols

\* update_map: the columns outside pk_list (48-51)
UpdateMap == MergeCols \ loader.pk_list

\* insert_map: a copy of update_map, plus the generated key if there is one (52-54)
InsertMap == UpdateMap

\* the columns of the target table
TargetColumns == IF cfg.change_type_column THEN SourceCols \cup {CHANGE_TYPE} ELSE SourceCols

\* the source rows the predicate s.pk = t.pk joins to a target row (43, 58)
MergeMatch(x, rows) == {s \in rows : Project(s, loader.pk_list) = Project(x, loader.pk_list)}

\* the matched clauses in their order: delete when D, update when U (59-63);
\* in the merge of a source that is no CDC table, update (71-73)
MergeMatched(x, s, by_type) ==
    IF by_type /\ s[CHANGE_TYPE] = "D" THEN {}
    ELSE IF ~by_type \/ s[CHANGE_TYPE] = "U"
    THEN {[c \in DOMAIN x |-> IF c \in UpdateMap THEN s[c] ELSE x[c]]}
    ELSE {x}

\* the not-matched clause: insert when I, or always (64-67, 74-76); the
\* columns missing in insert_map, those of pk_list, are stored as NULL
MergeNotMatched(tgt, rows, by_type) ==
    {Project(s, InsertMap \cap TargetColumns) @@ Nulls(loader.pk_list) :
        s \in {r \in rows : /\ \A x \in tgt : r \notin MergeMatch(x, rows)
                            /\ by_type => r[CHANGE_TYPE] = "I"}}

\* the merge with pick[x] as the source row joined to the target row x
Merged(tgt, rows, by_type, pick) ==
    Stored(UNION {IF MergeMatch(x, rows) = {} THEN {x} ELSE MergeMatched(x, pick[x], by_type) :
                    x \in tgt},
           MergeNotMatched(tgt, rows, by_type), TargetColumns)

\* the target after execute, with the way execute ended.  The table format
\* is not part of the repository: a merge in which several source rows match
\* one target row, or whose update names a column the target lacks, is
\* either rejected or carried out with one of the matching rows
DeltaLakeTableResults(tgt, rows) ==
    IF loader.pk_list = {}
    \* create_join_condition iterates over pk_list, which is None (43)
    THEN {[target |-> tgt, outcome |-> "TypeError"]}
    ELSE LET by_type == cfg.source_is_cdc /\ ~cfg.is_cdc
             hit == {x \in tgt : MergeMatch(x, rows) # {}}
             picks == {p \in [hit -> rows] : \A x \in hit : p[x] \in MergeMatch(x, rows)}
             unsure == \/ \E x \in tgt : Cardinality(MergeMatch(x, rows)) > 1
                       \/ ~(UpdateMap \subseteq TargetColumns)
         IN  {[target |-> Merged(tgt, rows, by_type, p), outcome |-> "done"] : p \in picks}
                \cup (IF unsure THEN {[target |-> tgt, outcome |-> "EngineError"]} ELSE {})

DeltaLakeTableExecute ==
    /\ outcome = "none"
    /\ pre' = [cdc |-> cdc, target |-> target]
    /\ \E res \in DeltaLakeTableResults(target, IF cfg.source_is_cdc THEN cdc ELSE source) :
        /\ target' = res.target
        /\ outcome' = res.outcome
    /\ UNCHANGED <<gvars, pipeline, tc, scd2, loader, source, cdc, now, cv, compared,
                   starts, ran, hist, issued, gk, cfg>>

\* the CDC tables Comparison produces: for one primary key an I row, or a U
\* row with or without its B row, or D rows (CDCTransforms.py 171-191)
ComparisonDeltas ==
    {T \in LoadCdcTables :
        \A r \in T : \A s \in T \ {r} :
            r.customer_id = s.customer_id =>
                \/ {r[CHANGE_TYPE], s[CHANGE_TYPE]} = {"U", "B"}
                \/ {r[CHANGE_TYPE], s[CHANGE_TYPE]} = {"D"}}

InitMerge ==
    /\ NoGraphRun
    /\ pipeline = "plain"
    /\ tc = "none" /\ scd2 = "none" /\ gk = "none"
    /\ cfg \in MergeSettings
    /\ loader \in LoadLoaders
    /\ inputs = ChainInputs(<<"customer_output">>)
    /\ outputs = ChainOutputs(<<"customer_output">>)
    /\ executed = [n \in {"customer_output"} |-> FALSE]
    /\ execute_lock = [n \in {"customer_output"} |-> FALSE]
    /\ IF cfg.source_is_cdc THEN source = {} /\ cdc \in ComparisonDeltas
       ELSE source \in CmpSources /\ cdc = {}
    /\ target \in LoadTargets
    /\ cv = {}
    /\ now = 1 /\ compared = FALSE /\ starts = 0 /\ ran = FALSE /\ hist = <<>> /\ issued = <<>>
    /\ pre = "none" /\ outcome = "none"

NextMerge == DeltaLakeTableExecute

SpecMerge == InitMerge /\ [][NextMerge]_vars

\* the rows of a table without the row ids
Content(tgt) == ProjectAll(tgt, TargetColumns)

\* holds: on a delta without I row, with one source row at most for a target
\* row, and a target that has the column __change_type, the merge leaves
\* the rows the three statements of DuckDBTable leave
C26_SameWithoutInserts ==
    (/\ outcome # "none" /\ cfg.source_is_cdc /\ loader.pk_list # {}
     /\ cfg.change_type_column
     /\ \A s \in pre.cdc : s[CHANGE_TYPE] # "I"
     /\ \A x \in pre.target : Cardinality(MergeMatch(x, pre.cdc)) <= 1) =>
        \A l \in DuckDBTableResults(pre.target, pre.cdc) :
            l.outcome = outcome /\ Content(l.target) = Content(target)

\* C26: for every CDC delta of Comparison and every target, the merge of the
\* lakehouse loader leaves the target with the rows the local loader leaves
\* (INSERT of the I rows, UPDATE by the U rows, DELETE by the D rows)
C26_MergeEqualsLocalLoader ==
    (outcome # "none" /\ cfg.source_is_cdc /\ loader.pk_list # {}) =>
        \A l \in DuckDBTableResults(pre.target, pre.cdc) :
            /\ l.outcome = outcome
            /\ Content(l.target) = Content(target)
            /\ Cardinality(l.target) = Cardinality(target)

\* a target row of the SCD2 pipeline that has been closed
Closed(x) == x.end_date # scd2.termination_date /\ x.current = scd2.current_flag_unset

\* holds: without detect_deletes no run changes a closed row
C27_ClosedRowsKeptWithoutDeletes ==
    [][(pipeline = "scd2" /\ ~tc.detect_deletes) =>
            \A x \in target : Closed(x) => x \in target']_vars

\* C27: in the SCD2 pipeline no run changes any column of a target row that
\* has been closed (end date different from termination_date, current flag
\* unset), whatever the sources of the runs, the row's key absent included
C27_ClosedRowsNeverChange ==
    [][pipeline = "scd2" => \A x \in target : Closed(x) => x \in target']_vars

\* C28: when start(N) returns without error on a graph whose flags were all
\* clear, every step of N's connected component has had its execute invoked
\* exactly once and has executed = true
C28_ComponentExecutedOnce ==
    (Idle /\ trace # <<>> /\ LastOp.op = "start" /\ LastOp.result = "ok" /\ LastOp.clean) =>
        \A s \in Component(LastOp.node) :
            /\ executed[s]
            /\ Cardinality({i \in 1..Len(runLog) : runLog[i] = s}) = 1

\* a clean start on the middle step of a chain of three that returned
\* without error
C28_Witness ==
    /\ Idle /\ trace # <<>> /\ LastOp.op = "start" /\ LastOp.result = "ok" /\ LastOp.clean
    /\ inputs[LastOp.node] # {} /\ outputs[LastOp.node] # {}
    /\ Component(LastOp.node) = Steps
    /\ Len(runLog) = Cardinality(Steps)

\* ---------------------------------------------------------------------------
\* The wiring operations: Step.add_input / add_output between the datasets
\* a, b, c, Comparison.set_source on the Comparison tc and Query.set_inputs
\* on the Query q
\* ---------------------------------------------------------------------------
WireNodes == Steps \cup {"tc", "q"}

\* Comparison.set_source (CDCTransforms.py 88-93); cfg.source is self.source
set_source(src) ==
    /\ inputs' = [inputs EXCEPT !["tc"] = (@ \ {cfg.source}) \cup {src}]
    /\ outputs' = [n \in WireNodes |->
                    IF n = src THEN outputs[n] \cup {"tc"}
                    ELSE IF n = cfg.source THEN outputs[n] \ {"tc"}
                    ELSE outputs[n]]
    /\ cfg' = [cfg EXCEPT !.source = src]
    /\ UNCHANGED <<executed, execute_lock, stack, trace, runLog, invoked, succeeded, failures,
                   pipeline, tc, scd2, loader, source, target, cdc, now, cv, compared,
                   starts, ran, hist, issued, gk, pre, outcome>>

\* Query.set_inputs (Metadata.py 297-298): self.inputs = inputs
set_inputs(new) ==
    /\ inputs' = [inputs EXCEPT !["q"] = new]
    /\ UNCHANGED <<outputs, executed, execute_lock, stack, trace, runLog, invoked, succeeded,
                   failures, dvars>>

\* after Comparison(source) and Query(name, sql, inputs): the constructors
\* wire their inputs with add_input (CDCTransforms.py 76-77, Metadata.py 276-278)
InitWire ==
    /\ NoGraphRun
    /\ pipeline = "none" /\ tc = "none" /\ scd2 = "none" /\ loader = "none"
    /\ source = {} /\ target = {} /\ cdc = {} /\ cv = {}
    /\ now = 1 /\ compared = FALSE /\ starts = 0 /\ ran = FALSE /\ hist = <<>> /\ issued = <<>>
    /\ gk = "none" /\ pre = "none" /\ outcome = "none"
    /\ cfg \in [source : Steps]
    /\ \E given \in SUBSET Steps :
        /\ inputs = [n \in WireNodes |->
                        IF n = "tc" THEN {cfg.source} ELSE IF n = "q" THEN given ELSE {}]
        /\ outputs = [n \in WireNodes |->
                        (IF n = cfg.source THEN {"tc"} ELSE {}) \cup
                        (IF n \in given THEN {"q"} ELSE {})]
    /\ executed = [n \in WireNodes |-> FALSE]
    /\ execute_lock = [n \in WireNodes |-> FALSE]

NextWire ==
    \/ \E x \in Steps : \E y \in Steps \ {x} : add_input(x, y)
    \/ \E x \in Steps : \E y \in Steps \ {x} : add_output(x, y)
    \/ \E src \in Steps : set_source(src)
    \/ \E new \in SUBSET Steps : set_inputs(new)

SpecWire == InitWire /\ [][NextWire]_vars

\* holds: the edges between the steps other than the Query are symmetric
C29_SymmetricWithoutQuery ==
    \A x \in WireNodes \ {"q"} : \A y \in WireNodes \ {"q"} :
        x \in inputs[y] <=> y \in outputs[x]

\* C29: after any sequence of add_input, add_output, Comparison.set_source
\* and Query.set_inputs the edges are symmetric: A is in B.inputs if and
\* only if B is in A.outputs
C29_EdgesSymmetric ==
    \A x \in WireNodes : \A y \in WireNodes : x \in inputs[y] <=> y \in outputs[x]

\* the steps whose start or completed is running, outermost call first
Running == [i \in 1..Len(stack) |-> stack[i].node]

\* holds: start never re-enters a step whose start is running, so that the
\* depth of a start is at most the number of steps
C30_StartNeverReenters ==
    (stack # <<>> /\ Top.pc \in {"inputs", "outputs"}) =>
        \A i \in 1..Len(stack) : \A j \in 1..Len(stack) : Running[i] = Running[j] => i = j

\* holds: on a graph without cycle no call of completed exhausts the call stack
C30_CompletedReturnsOnDAG ==
    IsDAG => \A i \in 1..Len(trace) : trace[i].result # "overflow"

\* C30: start(N) and completed() terminate on every graph built through
\* add_input / add_output, cycles included: no call recurses until the call
\* stack is exhausted
C30_CallsTerminate ==
    \A i \in 1..Len(trace) : trace[i].result # "overflow"

====
